---- MODULE Spec2Model ----
(***************************************************************************)
(* Movie_APPs (Project-Individu-Movie-Apps/index.tsx): the favorites       *)
(* provider with its AsyncStorage slot, the Detail and Favorites screens   *)
(* that call it, and the catalog fetches of the Home, Detail and Search    *)
(* screens.                                                                *)
(*                                                                         *)
(* React state is modelled as React defines it: a component's closures     *)
(* (addFavorite, removeFavorite, isFavorite) read the value of `favorites` *)
(* of the render that created them; setFavorites stores the next value and *)
(* schedules a re-render, which is a step of its own (Render).             *)
(* AsyncStorage completes the operations on a key in the order they were   *)
(* issued.                                                                 *)
(***************************************************************************)
EXTENDS Integers, Sequences, FiniteSets, TLC

\* ------------------------------------------------------------------ bounds
MaxFavs == 2        \* longest favorites list an add is issued against
MaxStored == 1      \* longest list found in the slot at startup
MaxPendingSaves == 1 \* setItem calls in flight
MaxResults == 1     \* longest result list of a catalog response
MaxInflight == 1    \* overlapping handleSearch requests

VARIABLES
    favorites,      \* FavoritesProvider: the state behind useState (line 101)
    rendered,       \* the `favorites` const of the provider's last render
    storage,        \* the AsyncStorage slot "@favorites"
    ops,            \* AsyncStorage operations issued and not yet completed
    loadState,      \* loadFavoritesFromStorage: "pending" | "done"
    loadRead,       \* history: how getItem ended: "none" | "ok" | "error"
    detail,         \* per stack: the mounted DetailScreen's local state
    lastOp,         \* history: the last provider operation; sameRender: an earlier
                    \* call was issued from the render this one was issued from
    callsThisRender,\* history: a call was issued from the provider's last render
    preLoad,        \* history: the last mutation made while the load was pending
    savesIssued,    \* history: some saveFavorites write was issued
    writeFailed,    \* history: some setItem was rejected
    homePc,         \* HomeScreen.fetchAllMovies: index of the awaited category
    sections,       \* HomeScreen: nowPlaying / popular / topRated / upcoming
    requested,      \* history: categories whose request was sent
    fetchFailed,    \* history: categories whose request failed
    lastFetch,      \* history: the last completed fetchMovies / recommendations call
    recPending,     \* DetailScreen.fetchRecommendations: the movie id in flight, or 0
    recommendations,\* DetailScreen: the recommendations state
    results,        \* SearchScreen: the results state
    searchInflight, \* SearchScreen.handleSearch: requests in flight
    lastSearch      \* history: outcome of the last completed handleSearch

favVars == <<favorites, rendered, storage, ops, loadState, loadRead, detail, lastOp,
             callsThisRender,
             preLoad, savesIssued, writeFailed>>
catVars == <<homePc, sections, requested, fetchFailed, lastFetch, recPending,
             recommendations, results, searchInflight, lastSearch>>
vars == <<favorites, rendered, storage, ops, loadState, loadRead, detail, lastOp,
          callsThisRender,
          preLoad, savesIssued, writeFailed, homePc, sections, requested,
          fetchFailed, lastFetch, recPending, recommendations, results, searchInflight,
          lastSearch>>

\* ------------------------------------------------------------------ data
MovieIds == {1, 2}

Titles == [i \in MovieIds |-> i * 10]

\* interface Movie: the id and, standing for the other fields, the title
Movie(i) == [id |-> i, title |-> Titles[i]]

Movies == {Movie(i) : i \in MovieIds}

RECURSIVE SeqsUpTo(_, _)
SeqsUpTo(S, n) ==
    IF n = 0 THEN {<<>>}
    ELSE LET shorter == SeqsUpTo(S, n - 1)
         IN  shorter \cup {Append(s, x) : s \in {t \in shorter : Len(t) = n - 1}, x \in S}

\* ------------------------------------------------------------------ storage
\* JSON.stringify(favorites): one entry per movie, its fields in order
JSONstringify(favs) == [i \in 1..Len(favs) |-> <<favs[i].id, favs[i].title>>]

\* JSON.parse(jsonValue) of a text written by JSON.stringify
JSONparse(text) == [i \in 1..Len(text) |-> [id |-> text[i][1], title |-> text[i][2]]]

AbsentSlot == [kind |-> "absent", text |-> <<>>]
CorruptSlot == [kind |-> "corrupt", text |-> <<>>]
TextSlot(text) == [kind |-> "text", text |-> text]

InitialSlots ==
    {AbsentSlot, CorruptSlot}
        \cup {TextSlot(JSONstringify(f)) : f \in SeqsUpTo(Movies, MaxStored)}

\* the ternary of line 124 with its branches swapped
loadFavorites_Swapped(slot, readOk) ==
    IF ~readOk THEN <<>>
    ELSE IF slot.kind = "text" THEN <<>>
    ELSE JSONparse(slot.text)

\* loadFavorites: getItem rejected, or JSON.parse throws -> []; null -> []
loadFavorites(slot, readOk) ==
    IF ~readOk THEN <<>>
    ELSE IF slot.kind = "absent" THEN <<>>
    ELSE IF slot.kind = "corrupt" THEN <<>>
    ELSE JSONparse(slot.text)

\* ------------------------------------------------------------------ provider
\* addFavorite: [...favorites, movie]
AddedFavorites(favs, movie) == Append(favs, movie)

\* the filter of line 138 with === for !==
FilteredFavorites_Inverted(favs, movieId) == SelectSeq(favs, LAMBDA movie : movie.id = movieId)

\* removeFavorite: favorites.filter((movie) => movie.id !== movieId)
FilteredFavorites(favs, movieId) == SelectSeq(favs, LAMBDA movie : movie.id # movieId)

\* favorites.some((movie) => movie.id === movieId)
SomeHasId(favs, movieId) == \E i \in 1..Len(favs) : favs[i].id = movieId

\* isFavorite of the context value of the last render
isFavorite(movieId) == SomeHasId(rendered, movieId)

PendingSaves == Len(SelectSeq(ops, LAMBDA o : o.type = "set"))

\* saveFavorites: stringify, then issue setItem("@favorites", jsonValue)
saveFavorites(favs) ==
    /\ ops' = Append(ops, [type |-> "set", value |-> JSONstringify(favs)])
    /\ savesIssued' = TRUE

NotePreLoad(kind, movieId) ==
    preLoad' = IF loadState = "pending"
               THEN [kind |-> kind, id |-> movieId]
               ELSE [kind |-> "none", id |-> 0]

addFavorite(movie) ==
    /\ Len(rendered) < MaxFavs
    /\ PendingSaves < MaxPendingSaves
    /\ LET newFavorites == AddedFavorites(rendered, movie)
       IN  /\ favorites' = newFavorites
           /\ saveFavorites(newFavorites)
    /\ lastOp' = [kind |-> "add", id |-> movie.id, sameRender |-> callsThisRender]
    /\ NotePreLoad("add", movie.id)
    /\ callsThisRender' = TRUE

removeFavorite(movieId) ==
    /\ PendingSaves < MaxPendingSaves
    /\ LET newFavorites == FilteredFavorites(rendered, movieId)
       IN  /\ favorites' = newFavorites
           /\ saveFavorites(newFavorites)
    /\ lastOp' = [kind |-> "remove", id |-> movieId, sameRender |-> callsThisRender]
    /\ NotePreLoad("remove", movieId)
    /\ callsThisRender' = TRUE

\* React re-renders the provider: new closures over the current state
Render ==
    /\ rendered # favorites \/ callsThisRender
    /\ rendered' = favorites
    /\ callsThisRender' = FALSE
    /\ UNCHANGED <<favorites, storage, ops, loadState, loadRead, detail, lastOp, preLoad,
                   savesIssued, writeFailed>>
    /\ UNCHANGED catVars

\* loadFavoritesFromStorage resumes: getItem completed (or was rejected)
LoadComplete ==
    /\ ops # <<>>
    /\ Head(ops).type = "get"
    /\ \E readOk \in BOOLEAN :
          /\ favorites' = loadFavorites(storage, readOk)
          /\ loadRead' = IF readOk THEN "ok" ELSE "error"
    /\ ops' = Tail(ops)
    /\ loadState' = "done"
    /\ lastOp' = [kind |-> "load", id |-> 0, sameRender |-> FALSE]
    /\ UNCHANGED <<rendered, storage, detail, preLoad, savesIssued, writeFailed,
                   callsThisRender>>
    /\ UNCHANGED catVars

\* a setItem issued by saveFavorites completes, or is rejected and logged
SaveComplete ==
    /\ ops # <<>>
    /\ Head(ops).type = "set"
    /\ \E writeOk \in BOOLEAN :
          /\ storage' = IF writeOk THEN TextSlot(Head(ops).value) ELSE storage
          /\ writeFailed' = (writeFailed \/ ~writeOk)
    /\ ops' = Tail(ops)
    /\ UNCHANGED <<favorites, rendered, loadState, loadRead, detail, lastOp, preLoad,
                   savesIssued, callsThisRender>>
    /\ UNCHANGED catVars

\* ------------------------------------------------------------------ screens
Stacks == {"HomeStack", "SearchStack"}

NoDetail == [mounted |-> FALSE, movie |-> 0, isInFavorites |-> FALSE]

\* DetailScreen mounts: useState(false), then the effect reads isFavorite(movie.id)
MountDetail ==
    /\ \E s \in Stacks, m \in Movies :
          /\ ~detail[s].mounted
          /\ detail' = [detail EXCEPT ![s] =
                 [mounted |-> TRUE, movie |-> m.id, isInFavorites |-> isFavorite(m.id)]]
    /\ UNCHANGED <<favorites, rendered, storage, ops, loadState, loadRead, lastOp, preLoad,
                   savesIssued, writeFailed, callsThisRender>>
    /\ UNCHANGED catVars

UnmountDetail ==
    /\ \E s \in Stacks :
          /\ detail[s].mounted
          /\ detail' = [detail EXCEPT ![s] = NoDetail]
    /\ UNCHANGED <<favorites, rendered, storage, ops, loadState, loadRead, lastOp, preLoad,
                   savesIssued, writeFailed, callsThisRender>>
    /\ UNCHANGED catVars

\* DetailScreen.toggleFavorite
toggleFavorite ==
    /\ \E s \in Stacks :
          /\ detail[s].mounted
          /\ IF detail[s].isInFavorites
             THEN /\ removeFavorite(detail[s].movie)
                  /\ detail' = [detail EXCEPT ![s].isInFavorites = FALSE]
             ELSE /\ addFavorite(Movie(detail[s].movie))
                  /\ detail' = [detail EXCEPT ![s].isInFavorites = TRUE]
    /\ UNCHANGED <<rendered, storage, loadState, loadRead, writeFailed>>
    /\ UNCHANGED catVars

\* FavoritesScreen: the Remove button of a rendered item
FavoritesScreenRemove ==
    /\ \E i \in 1..Len(rendered) : removeFavorite(rendered[i].id)
    /\ UNCHANGED <<rendered, storage, loadState, loadRead, detail, writeFailed>>
    /\ UNCHANGED catVars

\* ------------------------------------------------------------------ catalog
\* "now_playing", "popular", "top_rated", "upcoming", in the order of fetchAllMovies
Categories == <<"now_playing", "popular", "top_rated", "upcoming">>

\* a response lists the same movie up to MaxResults times: what matters to the
\* screens is the list they are handed, empty or not
ResultLists == SeqsUpTo({Movie(1)}, MaxResults)

\* how an axios.get ends: a response with a results array, a rejected request
\* (transport), or a response whose data cannot be read (decoding)
Outcomes ==
    {[kind |-> "ok", results |-> r] : r \in ResultLists}
        \cup {[kind |-> "reject", results |-> <<>>], [kind |-> "nodata", results |-> <<>>]}

Failed(outcome) == outcome.kind # "ok"

\* fetchMovies without its try / catch
fetchMovies_NoCatch(outcome) ==
    IF outcome.kind = "ok"
    THEN [ret |-> outcome.results, threw |-> FALSE]
    ELSE [ret |-> <<>>, threw |-> TRUE]

\* fetchMovies: try { return response.data.results } catch { return [] }
fetchMovies(outcome) ==
    IF outcome.kind = "ok"
    THEN [ret |-> outcome.results, threw |-> FALSE]
    ELSE [ret |-> <<>>, threw |-> FALSE]

\* fetchMovieRecommendations: the same try / catch
fetchMovieRecommendations(outcome) ==
    IF outcome.kind = "ok"
    THEN [ret |-> outcome.results, threw |-> FALSE]
    ELSE [ret |-> <<>>, threw |-> FALSE]

\* handleSearch: try { setResults(response.data.results) } catch { log }
handleSearch(prevResults, outcome) ==
    IF outcome.kind = "ok"
    THEN [results |-> outcome.results, threw |-> FALSE]
    ELSE [results |-> prevResults, threw |-> FALSE]

\* fetchAllMovies starting every remaining request at once
NextRequests_All(c) == (c + 1)..4

\* fetchAllMovies: the statement after the await of category c requests the next one
NextRequests(c) == IF c < 4 THEN {c + 1} ELSE {}

\* HomeScreen.fetchAllMovies resumes from the await of category homePc
HomeFetchComplete ==
    /\ homePc \in 1..4
    /\ \E outcome \in Outcomes :
          LET r == fetchMovies(outcome)
          IN  /\ lastFetch' = [fn |-> "fetchMovies", arg |-> homePc,
                               failed |-> Failed(outcome), ret |-> r.ret, threw |-> r.threw]
              /\ fetchFailed' = IF Failed(outcome) THEN fetchFailed \cup {homePc} ELSE fetchFailed
              /\ IF r.threw
                 THEN /\ homePc' = 6
                      /\ UNCHANGED <<sections, requested>>
                 ELSE /\ sections' = [sections EXCEPT ![homePc] = r.ret]
                      /\ homePc' = homePc + 1
                      /\ requested' = requested \cup NextRequests(homePc)
    /\ UNCHANGED <<recPending, recommendations, results, searchInflight, lastSearch>>
    /\ UNCHANGED favVars

\* DetailScreen mount effect: fetchRecommendations() for the screen's movie
DetailFetchStart ==
    /\ recPending = 0
    /\ \E id \in MovieIds : recPending' = id
    /\ UNCHANGED <<homePc, sections, requested, fetchFailed, lastFetch, recommendations,
                   results, searchInflight, lastSearch>>
    /\ UNCHANGED favVars

\* DetailScreen.fetchRecommendations resumes
DetailFetchComplete ==
    /\ recPending # 0
    /\ \E outcome \in Outcomes :
          LET r == fetchMovieRecommendations(outcome)
          IN  /\ lastFetch' = [fn |-> "fetchMovieRecommendations", arg |-> recPending,
                               failed |-> Failed(outcome), ret |-> r.ret, threw |-> r.threw]
              /\ recommendations' = IF r.threw THEN recommendations ELSE r.ret
    /\ recPending' = 0
    /\ UNCHANGED <<homePc, sections, requested, fetchFailed, results, searchInflight, lastSearch>>
    /\ UNCHANGED favVars

\* SearchScreen: onSubmitEditing calls handleSearch, which awaits axios.get
SearchStart ==
    /\ searchInflight < MaxInflight
    /\ searchInflight' = searchInflight + 1
    /\ UNCHANGED <<homePc, sections, requested, fetchFailed, lastFetch, recPending,
                   recommendations, results, lastSearch>>
    /\ UNCHANGED favVars

\* SearchScreen.handleSearch resumes
SearchComplete ==
    /\ searchInflight > 0
    /\ \E outcome \in Outcomes :
          LET r == handleSearch(results, outcome)
          IN  /\ results' = r.results
              /\ lastSearch' = [kind |-> "done", failed |-> Failed(outcome), threw |-> r.threw]
    /\ searchInflight' = searchInflight - 1
    /\ UNCHANGED <<homePc, sections, requested, fetchFailed, lastFetch, recPending,
                   recommendations>>
    /\ UNCHANGED favVars

\* ------------------------------------------------------------------ specifications
FavInit ==
    /\ favorites = <<>>
    /\ rendered = <<>>
    /\ storage \in InitialSlots
    /\ ops = <<[type |-> "get", value |-> <<>>]>>
    /\ loadState = "pending"
    /\ loadRead = "none"
    /\ detail = [s \in Stacks |-> NoDetail]
    /\ lastOp = [kind |-> "none", id |-> 0, sameRender |-> FALSE]
    /\ callsThisRender = FALSE
    /\ preLoad = [kind |-> "none", id |-> 0]
    /\ savesIssued = FALSE
    /\ writeFailed = FALSE

CatInit ==
    /\ homePc = 1
    /\ sections = [c \in 1..4 |-> <<>>]
    /\ requested = {1}
    /\ fetchFailed = {}
    /\ lastFetch = [fn |-> "none", arg |-> 0, failed |-> FALSE, ret |-> <<>>, threw |-> FALSE]
    /\ recPending = 0
    /\ recommendations = <<>>
    /\ results = <<>>
    /\ searchInflight = 0
    /\ lastSearch = [kind |-> "none", failed |-> FALSE, threw |-> FALSE]

Init == FavInit /\ CatInit

FavNext ==
    \/ Render
    \/ LoadComplete
    \/ SaveComplete
    \/ MountDetail
    \/ UnmountDetail
    \/ toggleFavorite
    \/ FavoritesScreenRemove

CatNext ==
    \/ HomeFetchComplete
    \/ DetailFetchStart
    \/ DetailFetchComplete
    \/ SearchStart
    \/ SearchComplete

\* the favorites provider, its storage slot and the screens that call it
Spec == Init /\ [][FavNext]_vars

\* the catalog fetches of the Home, Detail and Search screens
CatalogInit == Init /\ storage = AbsentSlot

CatalogSpec == CatalogInit /\ [][CatNext]_vars

\* ------------------------------------------------------------------ claims
Min(a, b) == IF a < b THEN a ELSE b

\* the collection whose JSON text is `text`
Persisted(text) ==
    CHOOSE f \in SeqsUpTo(Movies, Len(text)) : JSONstringify(f) = text

AddStep == lastOp'.kind = "add" /\ Len(ops') = Len(ops) + 1

RemoveStep == lastOp'.kind = "remove" /\ Len(ops') = Len(ops) + 1

LoadStep == loadState = "pending" /\ loadState' = "done"

NoSavePending == PendingSaves = 0

C2_SlotMatchesMemory ==
    (savesIssued /\ ~writeFailed /\ NoSavePending) =>
        /\ storage = TextSlot(JSONstringify(favorites))
        /\ loadFavorites(storage, TRUE) = favorites

\* C3: a fetchMovies or fetchMovieRecommendations call whose request failed
\* returned the empty sequence and raised nothing, for every category and id.
C3_FailedFetchIsEmpty ==
    lastFetch.failed => (lastFetch.ret = <<>> /\ ~lastFetch.threw)

\* a failed category fetch after a populated section
C3_Witness ==
    /\ lastFetch.fn = "fetchMovies"
    /\ lastFetch.failed
    /\ lastFetch.arg = 2
    /\ sections[1] # <<>>
    /\ sections[2] = <<>>

\* C4: after a failed search the result list is empty and nothing was raised.
C4_FailedSearchIsEmpty ==
    lastSearch.failed => (results = <<>> /\ ~lastSearch.threw)

\* C5 as stated: every category's request is sent whatever the state of the
\* other three fetches, so all four are out as soon as the effect has run.
C5_AllRequestedIndependently ==
    \A c \in 1..4 : c \in requested

\* C5 amended: the categories are requested one after the other, each when the
\* fetch before it has completed; a section is populated only by its own fetch;
\* a failed fetch leaves its section empty and lets the next category start.
C5_SequentialFailSoft ==
    /\ requested = 1..Min(homePc, 4)
    /\ \A c \in 1..4 : c >= homePc => sections[c] = <<>>
    /\ \A c \in fetchFailed : c < homePc /\ sections[c] = <<>>

\* the first category failed and the second is populated
C5_Witness ==
    /\ 1 \in fetchFailed
    /\ sections[2] # <<>>
    /\ 3 \in requested

\* C6: every addFavorite(m) call leaves the in-memory collection equal to the
\* collection before the call with m appended, one entry longer.
C6_AddAppendsOne ==
    [][AddStep =>
          /\ favorites' = Append(favorites, Movie(lastOp'.id))
          /\ Len(favorites') = Len(favorites) + 1]_vars

\* C7: every removeFavorite(id) call leaves the in-memory collection equal to
\* the collection before the call without the entries of that id, the others in
\* their order; with the id absent the collection is unchanged.
C7_RemoveFiltersPrior ==
    [][RemoveStep =>
          /\ favorites' = SelectSeq(favorites, LAMBDA m : m.id # lastOp'.id)
          /\ (~SomeHasId(favorites, lastOp'.id) => favorites' = favorites)]_vars

\* C8: the load completes once; it sets the collection to the empty sequence
\* when the slot is absent, unreadable or not decodable and to the persisted
\* collection otherwise; after it no further load is issued or completed.
C8_LoadOnceNeverFails ==
    [][/\ LoadStep =>
             favorites' = IF loadRead' = "error" \/ storage.kind # "text"
                          THEN <<>>
                          ELSE Persisted(storage.text)
       /\ loadState = "done" =>
             /\ loadState' = "done"
             /\ loadRead' = loadRead
             /\ \A i \in 1..Len(ops') : ops'[i].type = "set"]_vars

\* the load restored a stored, non-empty collection
C8_Witness ==
    /\ lastOp.kind = "load"
    /\ loadRead = "ok"
    /\ storage.kind = "text"
    /\ favorites # <<>>
    /\ favorites = Persisted(storage.text)

\* C9: right after the load completes the collection still reflects the last
\* mutation made while it was in flight: an added movie is present, a removed
\* id is absent.
C9_LoadKeepsEarlierMutation ==
    lastOp.kind = "load" =>
        /\ preLoad.kind = "add" => SomeHasId(favorites, preLoad.id)
        /\ preLoad.kind = "remove" => ~SomeHasId(favorites, preLoad.id)

\* C10: with the provider rendered up to date, every mounted Detail screen's
\* isInFavorites flag equals isFavorite(movie.id).
C10_DetailFlagMatches ==
    rendered = favorites =>
        \A s \in Stacks :
            detail[s].mounted => detail[s].isInFavorites = isFavorite(detail[s].movie)
====
